---- MODULE Spec2Model ----
(***************************************************************************)
(* libcoap: the asynchronous exchange registry (src/async.c) over the PDU  *)
(* declarations of include/coap2/pdu.h.                                    *)
(*                                                                         *)
(* The heap is explicit: coap_async_t and coap_pdu_t objects live at       *)
(* addresses, an exchange holds the address of its PDU, and the caller     *)
(* holds the addresses of the request PDUs it built.  A context's          *)
(* async_state list is the sequence of the addresses linked from its head. *)
(***************************************************************************)
EXTENDS Integers, Sequences, FiniteSets, TLC

\* ------------------------------------------------------------------ bounds
MaxAsync == 2            \* coap_async_t objects the allocator can hand out
TickMod == 3             \* coap_tick_t is unsigned: arithmetic is modulo this

OwnerRefs == 1           \* references to a session held outside the registry

NULL == 0

Contexts == {1, 2}                   \* addresses of the coap_context_t objects
Sessions == {1, 2}                   \* addresses of the coap_session_t objects
Mids == {0, 1}                       \* values of the uint16_t pdu->mid
Ticks == 0 .. (TickMod - 1)          \* values of coap_tick_t
AsyncAddrs == 1 .. MaxAsync
PduAddrs == 1 .. (MaxAsync + 1)       \* one request in the caller's hands
Codes8 == 0 .. 255                   \* uint8_t code

COAP_MESSAGE_CON == 0
COAP_MESSAGE_NON == 1
COAP_OPTION_URI_PATH == 11

COAP_MESSAGE_SIZE_OFFSET_TCP8 == 13
COAP_MESSAGE_SIZE_OFFSET_TCP16_short == COAP_MESSAGE_SIZE_OFFSET_TCP8 + 255
COAP_MESSAGE_SIZE_OFFSET_TCP16 == 269
COAP_MESSAGE_SIZE_OFFSET_TCP32 == 65805
COAP_DEFAULT_VERSION == 1
COAP_PAYLOAD_START_lowNibble == 255 % 16
COAP_PAYLOAD_START == 255
COAP_PDU_MAX_UDP_HEADER_SIZE == 4
COAP_PDU_MAX_TCP_HEADER_SIZE == 6
COAP_PROTO_NONE == 0
COAP_PROTO_UDP == 1
COAP_PROTO_DTLS == 2
COAP_PROTO_TCP == 3
COAP_PROTO_TLS == 4

VARIABLES
  async_state,   \* context->async_state: the list of exchange addresses, head first
  asyncs,        \* heap of coap_async_t: session, pdu, delay, appdata
  pdus,          \* heap of coap_pdu_t
  requests,      \* addresses of the request PDUs the caller owns
  ref,           \* session->ref, the session's reference count
  crashed,       \* the process dereferenced NULL or freed twice
  registered,    \* history: (context, session, mid) -> exchange registered and not released
  origin,        \* history: exchange -> address of the request it was registered from
  last,          \* history: the latest call, its arguments and its return value
                 \* (orig: the PDU touched is the original of a listed exchange;
                 \*  n: the length of the list coap_delete_all_async() walked;
                 \*  old: the fire-time coap_async_set_delay() found;
                 \*  app_data: the pointer coap_async_set_app_data() was given)
  pdu,           \* the coap_pdu_t a caller builds with the functions of pdu.h
  wire,          \* the bytes of one message as they travel
  rx,            \* the receiver: the PDU it parses into and how far the parse got
  plast          \* history: the latest pdu.h call, its arguments and its result

asyncvars == <<async_state, asyncs, pdus, requests, ref, crashed, registered, origin, last>>
pduvars == <<pdu, wire, rx, plast>>
vars == <<async_state, asyncs, pdus, requests, ref, crashed, registered, origin, last,
          pdu, wire, rx, plast>>

\* ------------------------------------------------------------ pdu.h macros
COAP_PDU_IS_EMPTY(code) == code = 0

COAP_PDU_IS_REQUEST_le32(code) == ~COAP_PDU_IS_EMPTY(code) /\ code <= 32

COAP_PDU_IS_REQUEST(code) == ~COAP_PDU_IS_EMPTY(code) /\ code < 32

COAP_PDU_IS_RESPONSE(code) == code >= 64 /\ code < 224

COAP_PDU_IS_SIGNALING_gt224(code) == code > 224

COAP_PDU_IS_SIGNALING(code) == code >= 224

\* ------------------------------------------------------------ heap cells
FreePdu ==
  [alloc |-> FALSE, type |-> 0, code |-> 0, mid |-> 0,
   token |-> <<>>, options |-> <<>>, data |-> <<>>]

\* memset(s, 0, sizeof(coap_async_t))
ZeroAsync ==
  [alloc |-> TRUE, session |-> NULL, pdu |-> NULL, delay |-> 0, appdata |-> NULL]

FreeAsync == [ZeroAsync EXCEPT !.alloc = FALSE]

\* The request PDUs the caller builds: data = <<>> is pdu->data == NULL.
RequestSamples ==
  { [alloc |-> TRUE, type |-> COAP_MESSAGE_CON, code |-> 1, mid |-> 0,
     token |-> <<>>, options |-> <<>>, data |-> <<>>],
    [alloc |-> TRUE, type |-> COAP_MESSAGE_NON, code |-> 31, mid |-> 1,
     token |-> <<5, 6>>, options |-> << <<COAP_OPTION_URI_PATH, <<1>> >> >>,
     data |-> <<7, 8>>] }
  \cup
  { [alloc |-> TRUE, type |-> COAP_MESSAGE_CON, code |-> c, mid |-> 0,
     token |-> <<4>>, options |-> <<>>, data |-> <<>>] : c \in {0, 32, 255} }

\* Lowest free address of a heap, NULL when it is exhausted.
FreeAddrs(heap) == {a \in DOMAIN heap : ~heap[a].alloc}

LowestFree(heap) ==
  IF FreeAddrs(heap) = {} THEN NULL
  ELSE CHOOSE a \in FreeAddrs(heap) : \A b \in FreeAddrs(heap) : a <= b

\* --------------------------------------------------------- list macros
\* SEARCH_PAIR(head, out, session, session, pdu->mid, mid): the first element
\* whose session and pdu->mid both match, NULL when the loop runs off the end.
RECURSIVE SearchFrom(_, _, _, _, _)
SearchFrom(list, as, ps, session, mid) ==
  IF list = <<>> THEN NULL
  ELSE IF as[Head(list)].session = session /\ ps[as[Head(list)].pdu].mid = mid
       THEN Head(list)
       ELSE SearchFrom(Tail(list), as, ps, session, mid)

SEARCH_PAIR_skipHead(list, as, ps, session, mid) ==
  IF list = <<>> THEN NULL ELSE SearchFrom(Tail(list), as, ps, session, mid)

SEARCH_PAIR(list, as, ps, session, mid) == SearchFrom(list, as, ps, session, mid)

\* LL_PREPEND(head, add)
LL_PREPEND(list, add) == <<add>> \o list

RECURSIVE RemoveFirst(_, _)
RemoveFirst(list, del) ==
  IF list = <<>> THEN <<>>
  ELSE IF Head(list) = del THEN Tail(list)
       ELSE <<Head(list)>> \o RemoveFirst(Tail(list), del)

LL_DELETE_headOnly(list, del) ==
  IF list # <<>> /\ Head(list) = del
    THEN [head |-> Tail(list), nullderef |-> FALSE]
    ELSE [head |-> list, nullderef |-> list = <<>>]

\* LL_DELETE(head, del): unlinks del.  When del is not the head the macro
\* starts at _tmp = head and reads _tmp->next: with an empty list that is a
\* read through NULL.
LL_DELETE_truncates(list, del) ==
  IF list = <<>> THEN [head |-> list, nullderef |-> TRUE]
  ELSE [head |-> SubSeq(list, 1,
                        Cardinality({i \in 1 .. Len(list) :
                                       \A j \in 1 .. i : list[j] # del})),
        nullderef |-> FALSE]

LL_DELETE(list, del) ==
  IF list # <<>> /\ Head(list) = del
    THEN [head |-> Tail(list), nullderef |-> FALSE]
  ELSE IF list = <<>>
    THEN [head |-> list, nullderef |-> TRUE]
  ELSE [head |-> RemoveFirst(list, del), nullderef |-> FALSE]

\* ------------------------------------------------- collaborators (pdu, session)
\* The part of the program state the registry operations read and write.
State ==
  [async_state |-> async_state, asyncs |-> asyncs, pdus |-> pdus,
   ref |-> ref, crashed |-> crashed]

\* coap_session_reference(session): ++session->ref, returns session
coap_session_reference(S, session) ==
  [S EXCEPT !.ref[session] = @ + 1]

\* coap_session_release(session): --session->ref
coap_session_release(S, session) ==
  [S EXCEPT !.ref[session] = @ - 1]

\* coap_delete_pdu(pdu): the storage goes back to the allocator; a second
\* free of the same address corrupts the heap.
coap_delete_pdu(S, p) ==
  IF S.pdus[p].alloc THEN [S EXCEPT !.pdus[p] = FreePdu]
  ELSE [S EXCEPT !.crashed = TRUE]

\* coap_pdu_duplicate(old_pdu, session, token_length, token, NULL): a new PDU
\* with the type and code of old_pdu, a message id of its own (newmid, taken
\* from the session), the given token and every option; the payload is not
\* copied.  NULL when the allocation fails.
coap_pdu_duplicate(S, old, token, newmid, oom) ==
  LET p == IF oom THEN NULL ELSE LowestFree(S.pdus)
  IN  IF p = NULL THEN [S |-> S, pdu |-> NULL]
      ELSE [S |-> [S EXCEPT !.pdus[p] =
                     [alloc |-> TRUE, type |-> S.pdus[old].type,
                      code |-> S.pdus[old].code, mid |-> newmid,
                      token |-> token, options |-> S.pdus[old].options,
                      data |-> <<>>]],
            pdu |-> p]

\* coap_get_data(pdu, &len, &data): 0 when pdu->data is NULL
coap_get_data(S, p) == S.pdus[p].data # <<>>

\* coap_add_data(pdu, len, data): copies the bytes behind the payload marker;
\* returns 0 and leaves the PDU alone when the buffer cannot grow.
coap_add_data(S, p, data, nospace) ==
  IF nospace THEN S ELSE [S EXCEPT !.pdus[p].data = data]

\* ------------------------------------------------------------- async.c
\* What the environment decides during one call: which allocation (if any)
\* runs out of memory, the message id coap_pdu_duplicate() draws, the tick
\* coap_ticks() reads, and whether a read through NULL traps.
OomPoints == {"none", "async", "pdu", "data"}
Envs == [oom : OomPoints, newmid : Mids, tick : Ticks, trap : BOOLEAN]

\* coap_free_async(context, s), lines 103-116
coap_free_async(S, context, s, trap) ==
  IF s = NULL THEN S
  ELSE
    LET d  == LL_DELETE(S.async_state[context], s)
        S1 == [S EXCEPT !.async_state[context] = d.head]
        S2 == IF S1.asyncs[s].session # NULL
                THEN coap_session_release(S1, S1.asyncs[s].session) ELSE S1
        S3 == IF S2.asyncs[s].pdu # NULL
                THEN coap_delete_pdu(S2, S2.asyncs[s].pdu) ELSE S2
    IN  IF d.nullderef /\ trap THEN [S EXCEPT !.crashed = TRUE]
        ELSE [S3 EXCEPT !.asyncs[s] = FreeAsync]

\* s->pdu = coap_pdu_duplicate(request, ...), line 57: the exchange keeps the copy
StoredPdu_alias(request, dup) == request

StoredPdu(request, dup) == dup

\* s->pdu->mid = mid, line 64
SetMid_skipped(S, p, mid) == S

SetMid(S, p, mid) == [S EXCEPT !.pdus[p].mid = mid]

\* if (coap_get_data(request, &len, &data)) coap_add_data(s->pdu, len, data);
\* lines 66-68: the result of coap_add_data() is not looked at
CopyData(S, request, p, nospace) ==
  IF coap_get_data(S, request)
    THEN coap_add_data(S, p, S.pdus[request].data, nospace)
    ELSE S

\* s->session = coap_session_reference(session), line 70
TakeSession_noref(S, s, session) == [S EXCEPT !.asyncs[s].session = session]

TakeSession(S, s, session) ==
  [coap_session_reference(S, session) EXCEPT !.asyncs[s].session = session]

\* if (delay) { coap_ticks(&s->delay); s->delay += delay; }, lines 72-75
DelayFrom_noTick(old, delay, tick) == IF delay # 0 THEN delay % TickMod ELSE old

DelayFrom(old, delay, tick) ==
  IF delay # 0 THEN (tick + delay) % TickMod ELSE old

\* if (s != NULL) return NULL, lines 42-46
AlreadyRegistered_never(found) == FALSE

AlreadyRegistered(found) == found # NULL

\* coap_register_async(context, session, request, delay), lines 29-80:
\* the state after the call, the pointer returned and the failure met.
coap_register_async(S, context, session, request, delay, env) ==
  LET mid   == S.pdus[request].mid
      found == SEARCH_PAIR(S.async_state[context], S.asyncs, S.pdus, session, mid)
      s     == IF env.oom = "async" THEN NULL ELSE LowestFree(S.asyncs)
      S1    == IF s = NULL THEN S ELSE [S EXCEPT !.asyncs[s] = ZeroAsync]
      dup   == coap_pdu_duplicate(S1, request, S.pdus[request].token,
                                  env.newmid, env.oom = "pdu")
      p     == StoredPdu(request, dup.pdu)
      S2    == [dup.S EXCEPT !.asyncs[s].pdu = p]
      S3    == SetMid(S2, p, mid)
      S4    == CopyData(S3, request, p, env.oom = "data")
      S5    == TakeSession(S4, s, session)
      S6    == [S5 EXCEPT !.asyncs[s].delay = DelayFrom(@, delay, env.tick)]
      S7    == [S6 EXCEPT !.async_state[context] = LL_PREPEND(@, s)]
      Sf    == coap_free_async(S1, context, s, env.trap)
  IN  IF ~COAP_PDU_IS_REQUEST(S.pdus[request].code)
        THEN [S |-> S, ret |-> NULL, fail |-> "not_request"]
      ELSE IF AlreadyRegistered(found)
        THEN [S |-> S, ret |-> NULL, fail |-> "duplicate"]
      ELSE IF s = NULL
        THEN [S |-> S, ret |-> NULL, fail |-> "malloc"]
      ELSE IF dup.pdu = NULL
        THEN [S |-> Sf, ret |-> NULL,
              fail |-> IF Sf.crashed THEN "crash" ELSE "pdu"]
      ELSE [S |-> S7, ret |-> s,
            fail |-> IF coap_get_data(S, request) /\ env.oom = "data"
                       THEN "data" ELSE "none"]

\* coap_async_set_delay(async, delay), lines 82-92
coap_async_set_delay_accumulates(S, async, delay, tick) ==
  [S EXCEPT !.asyncs[async].delay =
     IF delay # 0 THEN (@ + tick + delay) % TickMod ELSE @]

coap_async_set_delay(S, async, delay, tick) ==
  [S EXCEPT !.asyncs[async].delay = IF delay # 0 THEN DelayFrom(@, delay, tick) ELSE 0]

\* coap_find_async(context, session, mid), lines 95-101
coap_find_async(S, context, session, mid) ==
  SEARCH_PAIR(S.async_state[context], S.asyncs, S.pdus, session, mid)

\* coap_delete_all_async(context), lines 118-126: LL_FOREACH_SAFE reads
\* astate->next before the body frees astate.
RECURSIVE FreeEach(_, _, _)
FreeEach(S, context, els) ==
  IF els = <<>> \/ S.crashed THEN S
  ELSE FreeEach(coap_free_async(S, context, Head(els), TRUE), context, Tail(els))

coap_delete_all_async_headOnly(S, context) ==
  LET l  == S.async_state[context]
      S1 == IF l = <<>> THEN S ELSE coap_free_async(S, context, Head(l), TRUE)
  IN  [S1 EXCEPT !.async_state[context] = <<>>]

coap_delete_all_async_everyContext(S, context) ==
  [S EXCEPT !.async_state = [c \in Contexts |-> <<>>]]

coap_delete_all_async(S, context) ==
  LET S1 == FreeEach(S, context, S.async_state[context])
  IN  IF S1.crashed THEN S1 ELSE [S1 EXCEPT !.async_state[context] = <<>>]

\* coap_async_set_app_data(async, app_data), lines 128-131
coap_async_set_app_data_intoDelay(S, async, app_data) ==
  [S EXCEPT !.asyncs[async].delay = app_data]

coap_async_set_app_data(S, async, app_data) ==
  [S EXCEPT !.asyncs[async].appdata = app_data]

\* coap_async_get_app_data(async), lines 133-136
coap_async_get_app_data(S, async) == S.asyncs[async].appdata

\* ------------------------------------------------------ struct coap_pdu_t
\* One coap_pdu_t, pdu.h lines 293-322.  buf is the storage behind
\* pdu->token: token, options, payload marker and payload, used_size bytes
\* of it in use.  data is the index in buf of the first payload byte, 0 for
\* pdu->data == NULL.
NoPdu ==
  [live |-> FALSE, type |-> 0, code |-> 0, mid |-> 0, max_hdr_size |-> 0,
   hdr_size |-> 0, token_length |-> 0, max_opt |-> 0, alloc_size |-> 0, used_size |-> 0,
   max_size |-> 0, buf |-> <<>>, data |-> 0]

\* Nothing travels: the protocol of the session and the bytes of the message.
NoWire == [proto |-> COAP_PROTO_NONE, bytes |-> <<>>]

\* The receiver before a message arrived.
NoRx == [state |-> "Idle", proto |-> 0, pdu |-> NoPdu, ret |-> 0]

\* No pdu.h call yet.  ret is the value returned, err the failure met,
\* oom whether the allocator refused, class the families a code is in, had
\* what the PDU held when a mutator was called.
NoPduCall ==
  [op |-> "none", ret |-> 0, err |-> "none", oom |-> FALSE, number |-> 0,
   value |-> <<>>, len |-> 0, class |-> {}, proto |-> COAP_PROTO_NONE,
   had |-> {}]

\* --------------------------------------------------------------- actions
Delays == Ticks                      \* values of the delay argument

NoCall ==
  [op |-> "none", context |-> NULL, session |-> NULL, pdu |-> NULL,
   async |-> NULL, delay |-> 0, tick |-> 0, fail |-> "none", ret |-> NULL,
   orig |-> FALSE, n |-> 0, old |-> 0, app_data |-> NULL]

\* The exchanges linked into a context's list.
Listed(c) == {async_state[c][i] : i \in 1 .. Len(async_state[c])}

AllListed == UNION {Listed(c) : c \in Contexts}

AsyncIdle ==
  /\ async_state = [c \in Contexts |-> <<>>]
  /\ asyncs = [a \in AsyncAddrs |-> FreeAsync]
  /\ pdus = [p \in PduAddrs |-> FreePdu]
  /\ requests = {}
  /\ ref = [s \in Sessions |-> OwnerRefs]
  /\ crashed = FALSE
  /\ registered = [k \in Contexts \X Sessions \X Mids |-> NULL]
  /\ origin = [a \in AsyncAddrs |-> NULL]
  /\ last = NoCall

\* No PDU is being built and no message travels.
PduIdle ==
  /\ pdu = NoPdu
  /\ wire = NoWire
  /\ rx = NoRx
  /\ plast = NoPduCall

Init == AsyncIdle /\ PduIdle

\* The registry operations write these five variables from a State record.
Becomes(S) ==
  /\ async_state' = S.async_state
  /\ asyncs' = S.asyncs
  /\ pdus' = S.pdus
  /\ ref' = S.ref
  /\ crashed' = S.crashed

\* The caller builds a request PDU (coap_pdu_init and the mutators of pdu.h);
\* it handles one request at a time.
NewRequest(r) ==
  /\ ~crashed
  /\ requests = {}
  /\ LowestFree(pdus) # NULL
  /\ LET p == LowestFree(pdus)
     IN  /\ pdus' = [pdus EXCEPT ![p] = r]
         /\ requests' = requests \cup {p}
         /\ last' = [NoCall EXCEPT !.op = "new_request", !.pdu = p]
  /\ UNCHANGED <<async_state, asyncs, ref, crashed, registered, origin>>
  /\ UNCHANGED pduvars

\* The caller overwrites a request PDU it owns.
MutateRequest(p, r) ==
  /\ ~crashed
  /\ p \in requests
  /\ r # pdus[p]
  /\ pdus' = [pdus EXCEPT ![p] = r]
  /\ last' = [NoCall EXCEPT !.op = "mutate_request", !.pdu = p,
                            !.orig = \E a \in AllListed : origin[a] = p]
  /\ UNCHANGED <<async_state, asyncs, requests, ref, crashed, registered, origin>>
  /\ UNCHANGED pduvars

\* The caller destroys a request PDU it owns: coap_delete_pdu(request).
DeleteRequest(p) ==
  /\ ~crashed
  /\ p \in requests
  /\ pdus' = [pdus EXCEPT ![p] = FreePdu]
  /\ requests' = requests \ {p}
  /\ origin' = [a \in AsyncAddrs |-> IF origin[a] = p THEN NULL ELSE origin[a]]
  /\ last' = [NoCall EXCEPT !.op = "delete_request", !.pdu = p,
                            !.orig = \E a \in AllListed : origin[a] = p]
  /\ UNCHANGED <<async_state, asyncs, ref, crashed, registered>>
  /\ UNCHANGED pduvars

\* The environments that differ in what a call with these arguments sees:
\* the tick is read only when delay # 0, the payload copy happens only when
\* the request has a payload, and a read through NULL only when the partial
\* exchange is freed while the list is empty.
EnvsOf(context, request, delay) ==
  {env \in Envs :
     /\ (delay = 0 \/ env.oom \in {"async", "pdu"}) => env.tick = 0
     /\ env.oom = "data" => pdus[request].data # <<>>
     /\ ~env.trap => (env.oom = "pdu" /\ async_state[context] = <<>>)}

Register(context, session, request, delay) ==
  /\ ~crashed
  /\ request \in requests
  /\ \E env \in EnvsOf(context, request, delay) :
       LET r == coap_register_async(State, context, session, request, delay, env)
       IN  /\ Becomes(r.S)
           /\ registered' =
                IF r.ret = NULL THEN registered
                ELSE [registered EXCEPT
                        ![<<context, session, pdus[request].mid>>] = r.ret]
           /\ origin' = IF r.ret = NULL THEN origin
                        ELSE [origin EXCEPT ![r.ret] = request]
           /\ last' = [NoCall EXCEPT !.op = "register", !.context = context,
                         !.session = session, !.pdu = request,
                         !.delay = IF r.ret # NULL THEN delay ELSE 0,
                         !.tick = IF r.ret # NULL THEN env.tick ELSE 0,
                         !.fail = r.fail, !.ret = r.ret]
  /\ UNCHANGED requests
  /\ UNCHANGED pduvars

SetDelay(async, delay, tick) ==
  /\ ~crashed
  /\ async \in AllListed
  /\ delay = 0 => tick = 0
  /\ Becomes(coap_async_set_delay(State, async, delay, tick))
  /\ last' = [NoCall EXCEPT !.op = "set_delay", !.async = async, !.delay = delay,
                            !.tick = tick, !.old = asyncs[async].delay]
  /\ UNCHANGED <<requests, registered, origin>>
  /\ UNCHANGED pduvars

Find(context, session, mid) ==
  /\ ~crashed
  /\ last' = [NoCall EXCEPT !.op = "find", !.context = context,
                !.session = session,
                !.ret = coap_find_async(State, context, session, mid)]
  /\ UNCHANGED <<async_state, asyncs, pdus, requests, ref, crashed, registered, origin>>
  /\ UNCHANGED pduvars

\* coap_free_async(context, s) on an exchange of this context, or on NULL
Release(context, s) ==
  /\ ~crashed
  /\ s \in Listed(context) \cup {NULL}
  /\ Becomes(coap_free_async(State, context, s, TRUE))
  /\ registered' = [k \in DOMAIN registered |->
                      IF s # NULL /\ registered[k] = s THEN NULL ELSE registered[k]]
  /\ origin' = IF s = NULL THEN origin ELSE [origin EXCEPT ![s] = NULL]
  /\ last' = [NoCall EXCEPT !.op = "release", !.context = context, !.async = s]
  /\ UNCHANGED requests
  /\ UNCHANGED pduvars

ReleaseAll(context) ==
  /\ ~crashed
  /\ Becomes(coap_delete_all_async(State, context))
  /\ registered' = [k \in DOMAIN registered |->
                      IF k[1] = context THEN NULL ELSE registered[k]]
  /\ origin' = [a \in AsyncAddrs |-> IF a \in Listed(context) THEN NULL ELSE origin[a]]
  /\ last' = [NoCall EXCEPT !.op = "release_all", !.context = context,
                            !.n = Len(async_state[context])]
  /\ UNCHANGED requests
  /\ UNCHANGED pduvars

\* The registry of one context, two sessions, no delays.
OneContext == {1}
NoDelay == {0}

Next ==
  \/ \E r \in RequestSamples : NewRequest(r)
  \/ \E p \in PduAddrs, r \in RequestSamples : MutateRequest(p, r)
  \/ \E p \in PduAddrs : DeleteRequest(p)
  \/ \E c \in OneContext, s \in Sessions, p \in PduAddrs, d \in NoDelay :
       Register(c, s, p, d)
  \/ \E a \in AsyncAddrs, d \in NoDelay : SetDelay(a, d, 0)
  \/ \E c \in OneContext, s \in Sessions, m \in Mids : Find(c, s, m)
  \/ \E c \in OneContext, a \in AsyncAddrs \cup {NULL} : Release(c, a)
  \/ \E c \in OneContext : ReleaseAll(c)

Spec == Init /\ [][Next]_vars

\* The caller's pointer of an exchange: coap_async_set_app_data(async, v)
SetAppData(async, app_data) ==
  /\ ~crashed
  /\ async \in AllListed
  /\ Becomes(coap_async_set_app_data(State, async, app_data))
  /\ last' = [NoCall EXCEPT !.op = "set_app_data", !.async = async,
                            !.app_data = app_data]
  /\ UNCHANGED <<requests, registered, origin>>
  /\ UNCHANGED pduvars

\* coap_async_get_app_data(async)
GetAppData(async) ==
  /\ ~crashed
  /\ async \in AllListed
  /\ last' = [NoCall EXCEPT !.op = "get_app_data", !.async = async,
                            !.ret = coap_async_get_app_data(State, async)]
  /\ UNCHANGED <<async_state, asyncs, pdus, requests, ref, crashed, registered, origin>>
  /\ UNCHANGED pduvars

\* The registry of one context and two sessions, with the fields a caller
\* sets on an exchange: the fire-time and the application pointer.
NextApp ==
  \/ \E r \in {q \in RequestSamples : COAP_PDU_IS_REQUEST(q.code)} : NewRequest(r)
  \/ \E p \in PduAddrs : DeleteRequest(p)
  \/ \E c \in OneContext, s \in Sessions, p \in PduAddrs, d \in NoDelay :
       Register(c, s, p, d)
  \/ \E a \in AsyncAddrs, d \in {0, 1} : SetDelay(a, d, 0)
  \/ \E a \in AsyncAddrs, v \in {1, 2} : SetAppData(a, v)
  \/ \E a \in AsyncAddrs : GetAppData(a)
  \/ \E c \in OneContext, a \in AsyncAddrs : Release(c, a)

SpecApp == Init /\ [][NextApp]_vars

\* The registries of two contexts that serve the same sessions.
NextTwo ==
  \/ \E r \in {q \in RequestSamples : COAP_PDU_IS_REQUEST(q.code)} : NewRequest(r)
  \/ \E p \in PduAddrs : DeleteRequest(p)
  \/ \E c \in Contexts, s \in Sessions, p \in PduAddrs, d \in NoDelay :
       Register(c, s, p, d)
  \/ \E c \in Contexts, s \in Sessions, m \in Mids : Find(c, s, m)
  \/ \E c \in Contexts, a \in AsyncAddrs : Release(c, a)
  \/ \E c \in Contexts : ReleaseAll(c)

SpecTwo == Init /\ [][NextTwo]_vars

\* The registry of one context and one session, with delays and the clock.
OneSession == {1}

NextDelay ==
  \/ \E r \in RequestSamples : NewRequest(r)
  \/ \E p \in PduAddrs : DeleteRequest(p)
  \/ \E c \in OneContext, s \in OneSession, p \in PduAddrs, d \in Delays :
       Register(c, s, p, d)
  \/ \E a \in AsyncAddrs, d \in Delays, t \in Ticks : SetDelay(a, d, t)
  \/ \E c \in OneContext, a \in AsyncAddrs : Release(c, a)

SpecDelay == Init /\ [][NextDelay]_vars

\* ------------------------------------------------ pdu.h: building a PDU
\* The bodies of the functions pdu.h declares are in pdu.c; they are
\* modelled from the declarations' comments and the data layout of pdu.h.
Min(a, b) == IF a <= b THEN a ELSE b
Max(a, b) == IF a >= b THEN a ELSE b

InitAlloc == 4           \* bytes coap_pdu_init() allocates at most at first
MaxTokenLength == 8      \* the longest token a message carries

\* Families of an 8-bit code, by the macros of pdu.h lines 324-327.
FamiliesOf(code) ==
  {f \in {"empty", "request", "response", "signaling"} :
     \/ f = "empty" /\ COAP_PDU_IS_EMPTY(code)
     \/ f = "request" /\ COAP_PDU_IS_REQUEST(code)
     \/ f = "response" /\ COAP_PDU_IS_RESPONSE(code)
     \/ f = "signaling" /\ COAP_PDU_IS_SIGNALING(code)}

\* coap_pdu_init(type, code, mid, size), lines 399-414: size is the maximum
\* allowed number of bytes of the message, 0 for a PDU that may grow freely.
coap_pdu_init(type, code, mid, size) ==
  [NoPdu EXCEPT !.live = TRUE, !.type = type, !.code = code, !.mid = mid,
                !.max_hdr_size = COAP_PDU_MAX_TCP_HEADER_SIZE,
                !.alloc_size = Min(size, InitAlloc), !.max_size = size]

\* coap_pdu_resize(pdu, new_size), lines 416-425: grows the storage to
\* new_size, which must not exceed the configured maximum; 1 on success.
\* The storage never shrinks.
coap_pdu_resize(p, new_size, oom) ==
  IF new_size > p.alloc_size
    THEN IF (p.max_size # 0 /\ new_size > p.max_size) \/ oom
           THEN [p |-> p, ret |-> 0]
           ELSE [p |-> [p EXCEPT !.alloc_size = new_size], ret |-> 1]
    ELSE [p |-> p, ret |-> 1]

RECURSIVE GrowTo(_, _)
GrowTo(n, size) == IF n >= size THEN n ELSE GrowTo(2 * n, size)

coap_pdu_check_resize_noCeiling(p, size, oom) ==
  IF size > p.alloc_size
    THEN IF oom THEN [p |-> p, ret |-> 0]
         ELSE [p |-> [p EXCEPT !.alloc_size =
                        GrowTo(Max(InitAlloc, 2 * p.alloc_size), size)],
               ret |-> 1]
    ELSE [p |-> p, ret |-> 1]

\* coap_pdu_check_resize(pdu, new_size), lines 427-438: grows the storage
\* geometrically when new_size bytes do not fit, never past max_size.
coap_pdu_check_resize(p, size, oom) ==
  LET grow(new) == IF new < size THEN [p |-> p, ret |-> 0]
                   ELSE coap_pdu_resize(p, new, oom)
      capped(g) == IF p.max_size # 0 /\ g > p.max_size THEN p.max_size ELSE g
  IN  IF size > p.alloc_size
        THEN grow(capped(GrowTo(Max(InitAlloc, 2 * p.alloc_size), size)))
        ELSE [p |-> p, ret |-> 1]

\* ---------------------------------------------------- the code families
\* Every 8-bit code in a PDU, and the macros applied to it.
InitCode ==
  /\ AsyncIdle
  /\ pdu \in {coap_pdu_init(COAP_MESSAGE_CON, c, 0, 0) : c \in Codes8}
  /\ wire = NoWire
  /\ rx = NoRx
  /\ plast = NoPduCall

Classify ==
  /\ plast.op = "none"
  /\ plast' = [NoPduCall EXCEPT !.op = "classify", !.class = FamiliesOf(pdu.code)]
  /\ UNCHANGED <<pdu, wire, rx>>
  /\ UNCHANGED asyncvars

NextCode == Classify

SpecCode == InitCode /\ [][NextCode]_vars

\* ------------------------------------------------- pdu.h: header framing
IsUdp(proto) == proto \in {COAP_PROTO_UDP, COAP_PROTO_DTLS}
IsTcp(proto) == proto \in {COAP_PROTO_TCP, COAP_PROTO_TLS}

\* The k bytes of n, most significant first.
RECURSIVE BigEndian(_, _)
BigEndian(n, k) ==
  IF k = 0 THEN <<>> ELSE BigEndian(n \div 256, k - 1) \o <<n % 256>>

RECURSIVE FromBigEndian(_)
FromBigEndian(bytes) ==
  IF bytes = <<>> THEN 0
  ELSE 256 * FromBigEndian(SubSeq(bytes, 1, Len(bytes) - 1)) + bytes[Len(bytes)]

\* The length nibble of a TCP header and the bytes of its extended length
\* field, for a message whose options and payload take len bytes.
TcpLenNibble(len) ==
  IF len < COAP_MESSAGE_SIZE_OFFSET_TCP8 THEN len
  ELSE IF len < COAP_MESSAGE_SIZE_OFFSET_TCP16 THEN 13
  ELSE IF len < COAP_MESSAGE_SIZE_OFFSET_TCP32 THEN 14
  ELSE 15

TcpLenExt(len) ==
  IF len < COAP_MESSAGE_SIZE_OFFSET_TCP8 THEN <<>>
  ELSE IF len < COAP_MESSAGE_SIZE_OFFSET_TCP16
    THEN BigEndian(len - COAP_MESSAGE_SIZE_OFFSET_TCP8, 1)
  ELSE IF len < COAP_MESSAGE_SIZE_OFFSET_TCP32
    THEN BigEndian(len - COAP_MESSAGE_SIZE_OFFSET_TCP16, 2)
  ELSE BigEndian(len - COAP_MESSAGE_SIZE_OFFSET_TCP32, 4)

\* coap_pdu_encode_header(pdu, proto), lines 680-687: the header bytes put in
\* front of pdu->token and their number, 0 on error.
coap_pdu_encode_header(p, proto) ==
  LET len == p.used_size - p.token_length
      framed(hdr) ==
        IF hdr = <<>> \/ Len(hdr) > p.max_hdr_size
          THEN [p |-> p, hdr |-> <<>>, ret |-> 0]
          ELSE [p |-> [p EXCEPT !.hdr_size = Len(hdr)], hdr |-> hdr,
                ret |-> Len(hdr)]
  IN  framed(IF IsUdp(proto)
               THEN <<COAP_DEFAULT_VERSION * 64 + p.type * 16 + p.token_length,
                      p.code>> \o BigEndian(p.mid, 2)
             ELSE IF IsTcp(proto)
               THEN <<TcpLenNibble(len) * 16 + p.token_length>>
                    \o TcpLenExt(len) \o <<p.code>>
             ELSE <<>>)

\* coap_pdu_parse_header_size(proto, data), lines 487-497: the number of
\* header bytes, from the first byte of the message; 0 on error.
coap_pdu_parse_header_size(proto, data) ==
  IF data = <<>> THEN 0
  ELSE IF IsUdp(proto) THEN COAP_PDU_MAX_UDP_HEADER_SIZE
  ELSE IF IsTcp(proto)
    THEN LET nibble == data[1] \div 16
         IN  IF nibble < 13 THEN 2
             ELSE IF nibble = 13 THEN 3
             ELSE IF nibble = 14 THEN 4
             ELSE 6
  ELSE 0

\* The length a TCP header declares.
TcpDeclaredLength(data) ==
  LET nibble == data[1] \div 16
  IN  IF nibble < 13 THEN nibble
      ELSE IF nibble = 13
        THEN FromBigEndian(SubSeq(data, 2, 2)) + COAP_MESSAGE_SIZE_OFFSET_TCP8
      ELSE IF nibble = 14
        THEN FromBigEndian(SubSeq(data, 2, 3)) + COAP_MESSAGE_SIZE_OFFSET_TCP16
      ELSE FromBigEndian(SubSeq(data, 2, 5)) + COAP_MESSAGE_SIZE_OFFSET_TCP32

\* coap_pdu_parse_size(proto, data, length), lines 499-512: the size of the
\* whole message once the header is there: header, token, options and
\* payload.  UDP has no length field: the message is the datagram.
coap_pdu_parse_size(proto, data) ==
  LET sized(hdr_size) ==
        IF hdr_size = 0 \/ Len(data) < hdr_size THEN 0
        ELSE IF IsTcp(proto)
          THEN hdr_size + (data[1] % 16) + TcpDeclaredLength(data)
        ELSE Len(data)
  IN  sized(coap_pdu_parse_header_size(proto, data))

\* Derived message size limits, lines 44-47.  The last is the sum of an int
\* and the unsigned constant 0xFFFFFFFF, evaluated in the unsigned type of
\* the build: of width 32 where int has 32 bits or fewer, wider where
\* 0xFFFFFFFF fits an int.  Its value is given in 16-bit digits, most
\* significant first, width \div 16 of them.
COAP_MAX_MESSAGE_SIZE_TCP0 == COAP_MESSAGE_SIZE_OFFSET_TCP8 - 1

COAP_MAX_MESSAGE_SIZE_TCP8 == COAP_MESSAGE_SIZE_OFFSET_TCP16 - 1

COAP_MAX_MESSAGE_SIZE_TCP16 == COAP_MESSAGE_SIZE_OFFSET_TCP32 - 1

COAP_MAX_MESSAGE_SIZE_TCP32(width) ==
  LET lo  == (COAP_MESSAGE_SIZE_OFFSET_TCP32 % 65536) + 65535
      hi  == (COAP_MESSAGE_SIZE_OFFSET_TCP32 \div 65536) + 65535 + (lo \div 65536)
      sum == <<0, hi \div 65536, hi % 65536, lo % 65536>>
  IN  SubSeq(sum, 5 - (width \div 16), 4)

\* ------------------------------------------------ the TCP length classes
\* Lengths of options plus payload around each class boundary, and the
\* token lengths they are combined with.  The header depends on the sizes
\* of the PDU only, so the bytes behind the token are not represented here.
BodyLengths ==
  (0 .. 15) \cup (266 .. 271) \cup (65802 .. 65807) \cup {70000, 16843009}
HeaderTokenLengths == {0, 8}
HeaderProtos == {COAP_PROTO_UDP, COAP_PROTO_TCP, COAP_PROTO_TLS}

SizedPdu(tkl, len) ==
  [coap_pdu_init(COAP_MESSAGE_CON, 69, 4660, 0) EXCEPT
     !.token_length = tkl, !.used_size = tkl + len, !.alloc_size = tkl + len]

InitHdr ==
  /\ AsyncIdle
  /\ pdu \in {SizedPdu(t, n) : t \in HeaderTokenLengths, n \in BodyLengths}
  /\ wire = NoWire
  /\ rx = NoRx
  /\ plast = NoPduCall

EncodeHeader(proto) ==
  /\ wire = NoWire
  /\ \E r \in {coap_pdu_encode_header(pdu, proto)} :
       /\ pdu' = r.p
       /\ wire' = [proto |-> proto, bytes |-> r.hdr]
       /\ plast' = [NoPduCall EXCEPT !.op = "encode_header", !.ret = r.ret,
                                     !.proto = proto]
  /\ UNCHANGED rx
  /\ UNCHANGED asyncvars

ParseHeaderSize ==
  /\ plast.op = "encode_header"
  /\ plast' = [NoPduCall EXCEPT !.op = "parse_header_size", !.proto = wire.proto,
                 !.ret = coap_pdu_parse_header_size(wire.proto, wire.bytes)]
  /\ UNCHANGED <<pdu, wire, rx>>
  /\ UNCHANGED asyncvars

ParseSize ==
  /\ plast.op = "parse_header_size"
  /\ plast' = [NoPduCall EXCEPT !.op = "parse_size", !.proto = wire.proto,
                 !.ret = coap_pdu_parse_size(wire.proto, wire.bytes)]
  /\ UNCHANGED <<pdu, wire, rx>>
  /\ UNCHANGED asyncvars

NextHdr ==
  \/ \E proto \in HeaderProtos : EncodeHeader(proto)
  \/ ParseHeaderSize
  \/ ParseSize

SpecHdr == InitHdr /\ [][NextHdr]_vars

\* ---------------------------------------------------- pdu.h: option codec
COAP_MAX_OPT == 65535

\* A delta or a length in an option header: the nibble, and the bytes of its
\* extension (13: one byte holding v - 13; 14: two bytes holding v - 269).
OptNibble(v) == IF v < 13 THEN v ELSE IF v < 269 THEN 13 ELSE 14

OptExtension_oneOffset(v) ==
  IF v < 13 THEN <<>>
  ELSE IF v < 269 THEN <<v - 13>>
  ELSE BigEndian(v - 13, 2)

OptExtension(v) ==
  IF v < 13 THEN <<>>
  ELSE IF v < 269 THEN <<v - 13>>
  ELSE BigEndian(v - 269, 2)

\* One option on the wire: delta to its predecessor, length, value.
coap_opt_encode(delta, value) ==
  <<OptNibble(delta) * 16 + OptNibble(Len(value))>>
    \o OptExtension(delta) \o OptExtension(Len(value)) \o value

\* The option at the head of bytes: its delta, its value and the bytes it
\* takes; size 0 when a nibble is 15, an extension is cut short or the value
\* runs past the end.
coap_opt_parse(bytes) ==
  LET bad == [size |-> 0, delta |-> 0, value |-> <<>>]
      dn  == bytes[1] \div 16
      ln  == bytes[1] % 16
      dsz == IF dn = 13 THEN 1 ELSE IF dn = 14 THEN 2 ELSE 0
      lsz == IF ln = 13 THEN 1 ELSE IF ln = 14 THEN 2 ELSE 0
      hsz == 1 + dsz + lsz
      ext(n, at, sz) ==
        IF n < 13 THEN n
        ELSE FromBigEndian(SubSeq(bytes, at, at + sz - 1))
               + (IF n = 13 THEN 13 ELSE 269)
      option(delta, length) ==
        IF Len(bytes) < hsz + length THEN bad
        ELSE [size |-> hsz + length, delta |-> delta,
              value |-> SubSeq(bytes, hsz + 1, hsz + length)]
  IN  IF bytes = <<>> \/ dn = 15 \/ ln = 15 \/ Len(bytes) < hsz THEN bad
      ELSE option(ext(dn, 2, dsz), ext(ln, 2 + dsz, lsz))

\* The options from the head of bytes up to the payload marker or the end:
\* number, value and encoding of each, and the bytes from the marker on.
RECURSIVE ScanOptions(_, _)
ScanOptions(bytes, prev) ==
  LET cons(o, t) ==
        [ok |-> t.ok, rest |-> t.rest,
         opts |-> <<[number |-> prev + o.delta, value |-> o.value,
                     raw |-> SubSeq(bytes, 1, o.size)]>> \o t.opts]
      step(o) ==
        IF o.size = 0 \/ prev + o.delta > COAP_MAX_OPT
          THEN [ok |-> FALSE, opts |-> <<>>, rest |-> bytes]
          ELSE cons(o, ScanOptions(SubSeq(bytes, o.size + 1, Len(bytes)),
                                   prev + o.delta))
  IN  IF bytes = <<>> \/ bytes[1] = COAP_PAYLOAD_START
        THEN [ok |-> TRUE, opts |-> <<>>, rest |-> bytes]
        ELSE step(coap_opt_parse(bytes))

RECURSIVE Flatten(_)
Flatten(seqs) == IF seqs = <<>> THEN <<>> ELSE Head(seqs) \o Flatten(Tail(seqs))

\* The three regions of the storage: token, options, payload.
TokenOf(p) == SubSeq(p.buf, 1, p.token_length)

OptionBytes(p) ==
  SubSeq(p.buf, p.token_length + 1,
         IF p.data = 0 THEN p.used_size ELSE p.data - 2)

PayloadOf(p) == IF p.data = 0 THEN <<>> ELSE SubSeq(p.buf, p.data, p.used_size)

\* The options a PDU holds, in the order stored: <<number, value>> each.
Options(p) ==
  LET pairs(s) == [i \in 1 .. Len(s) |-> <<s[i].number, s[i].value>>]
  IN  pairs(ScanOptions(OptionBytes(p), 0).opts)

\* The PDU with its option bytes replaced: the payload moves along.
WithOptionBytes(p, region) ==
  LET moved(m) ==
        [p EXCEPT !.buf = TokenOf(p) \o region \o m,
                  !.used_size = p.token_length + Len(region) + Len(m),
                  !.data = IF p.data = 0 THEN 0
                           ELSE p.token_length + Len(region) + 2]
  IN  moved(IF p.data = 0 THEN <<>> ELSE <<COAP_PAYLOAD_START>> \o PayloadOf(p))

\* ------------------------------------------------------ pdu.h: mutators
\* What a mutator hands back: the PDU afterwards, the value returned and the
\* failure met.  A failed call leaves the PDU as it was.
Failed(p, err) == [p |-> p, ret |-> 0, err |-> err]

\* coap_add_token(pdu, len, data), lines 554-569: the token replaces what
\* the PDU held; whatever followed it is gone and max_opt is 0 again.
coap_add_token_clearsFirst(p, token, oom) ==
  LET set(c, r) ==
        IF Len(token) > MaxTokenLength THEN Failed(c, "TokenTooLong")
        ELSE IF r.ret = 0 THEN Failed(c, "NoSpace")
        ELSE [p |-> [r.p EXCEPT !.token_length = Len(token), !.buf = token,
                                !.used_size = Len(token)],
              ret |-> 1, err |-> "none"]
      cleared(c) == set(c, coap_pdu_check_resize(c, Len(token), oom))
  IN  cleared([p EXCEPT !.token_length = 0, !.buf = <<>>, !.used_size = 0,
                        !.max_opt = 0, !.data = 0])

coap_add_token(p, token, oom) ==
  LET set(r) ==
        IF r.ret = 0 THEN Failed(p, "NoSpace")
        ELSE [p |-> [r.p EXCEPT !.token_length = Len(token), !.buf = token,
                                !.used_size = Len(token), !.max_opt = 0,
                                !.data = 0],
              ret |-> 1, err |-> "none"]
  IN  IF Len(token) > MaxTokenLength THEN Failed(p, "TokenTooLong")
      ELSE set(coap_pdu_check_resize(p, Len(token), oom))

\* The delta written for the option that follows an inserted or removed one.
FollowingDelta_stale(next, prev, old) == old

FollowingDelta(next, prev, old) == next - prev

\* coap_insert_option(pdu, type, len, data), lines 611-619: the option goes
\* behind the last option whose number is not larger, and the option after
\* it gets the delta to its new predecessor.
coap_insert_option(p, number, value, oom) ==
  LET prevOf(s, k) == IF k = 0 THEN 0 ELSE s[k].number
      stored(enc, region, r) ==
        IF r.ret = 0 THEN Failed(p, "NoSpace")
        ELSE [p |-> [WithOptionBytes(r.p, region) EXCEPT
                       !.max_opt = Max(@, number)],
              ret |-> Len(enc), err |-> "none"]
      fitted(enc, region) ==
        stored(enc, region,
               coap_pdu_check_resize(
                 p, p.used_size + Len(region) - Len(OptionBytes(p)), oom))
      placed(s, k, enc) ==
        fitted(enc,
               Flatten([i \in 1 .. k |-> s[i].raw]) \o enc
               \o (IF k = Len(s) THEN <<>>
                   ELSE coap_opt_encode(
                          FollowingDelta(s[k + 1].number, number,
                                         s[k + 1].number - prevOf(s, k)),
                          s[k + 1].value))
               \o Flatten([i \in 1 .. (Len(s) - k - 1) |-> s[k + 1 + i].raw]))
      behind(s, k) == placed(s, k, coap_opt_encode(number - prevOf(s, k), value))
      among(s) ==
        behind(s, Cardinality({i \in 1 .. Len(s) : s[i].number <= number}))
  IN  among(ScanOptions(OptionBytes(p), 0).opts)

\* coap_add_option(pdu, type, len, data), lines 589-600: destroys the PDU's
\* data, then appends the option, or inserts it when its number is below
\* max_opt; returns the number of bytes written.
coap_add_option_keepsData(p, number, value, oom) ==
  coap_insert_option(p, number, value, oom)

coap_add_option(p, number, value, oom) ==
  LET appended(enc, r) ==
        IF r.ret = 0 THEN Failed(p, "NoSpace")
        ELSE [p |-> [r.p EXCEPT !.buf = @ \o enc, !.used_size = @ + Len(enc),
                                !.max_opt = number],
              ret |-> Len(enc), err |-> "none"]
      append(p0, enc) ==
        appended(enc, coap_pdu_check_resize(p0, p0.used_size + Len(enc), oom))
      inserted(i) == IF i.ret = 0 THEN Failed(p, i.err) ELSE i
      added(p0) ==
        IF number < p.max_opt
          THEN inserted(coap_insert_option(p0, number, value, oom))
          ELSE append(p0, coap_opt_encode(number - p.max_opt, value))
  IN  added(IF p.data = 0 THEN p
            ELSE [p EXCEPT !.buf = SubSeq(@, 1, p.data - 2),
                           !.used_size = p.data - 2, !.data = 0])

\* coap_remove_option(pdu, type), lines 604-609: takes out the first option
\* of that number; the option after it gets the delta to its new predecessor.
coap_remove_option(p, number) ==
  LET prevOf(s, k) == IF k = 1 THEN 0 ELSE s[k - 1].number
      cut(s, k) ==
        [p |-> [WithOptionBytes(p,
                  Flatten([i \in 1 .. (k - 1) |-> s[i].raw])
                  \o (IF k = Len(s) THEN <<>>
                      ELSE coap_opt_encode(
                             FollowingDelta(s[k + 1].number, prevOf(s, k),
                                            s[k + 1].number - number),
                             s[k + 1].value))
                  \o Flatten([i \in 1 .. (Len(s) - k - 1) |-> s[k + 1 + i].raw]))
                EXCEPT !.max_opt = IF k = Len(s) THEN prevOf(s, k) ELSE @],
         ret |-> 1, err |-> "none"]
      found(s, hits) ==
        IF hits = {} THEN Failed(p, "NotFound")
        ELSE cut(s, CHOOSE i \in hits : \A j \in hits : i <= j)
      among(s) == found(s, {i \in 1 .. Len(s) : s[i].number = number})
  IN  among(ScanOptions(OptionBytes(p), 0).opts)

\* coap_update_option(pdu, type, len, data), lines 621-629: gives the first
\* option of that number the new value.
coap_update_option(p, number, value, oom) ==
  LET prevOf(s, k) == IF k = 1 THEN 0 ELSE s[k - 1].number
      stored(enc, region, r) ==
        IF r.ret = 0 THEN Failed(p, "NoSpace")
        ELSE [p |-> WithOptionBytes(r.p, region), ret |-> Len(enc),
              err |-> "none"]
      fitted(enc, region) ==
        stored(enc, region,
               coap_pdu_check_resize(
                 p, p.used_size + Len(region) - Len(OptionBytes(p)), oom))
      placed(s, k, enc) ==
        fitted(enc,
               Flatten([i \in 1 .. (k - 1) |-> s[i].raw]) \o enc
               \o Flatten([i \in 1 .. (Len(s) - k) |-> s[k + i].raw]))
      at(s, k) == placed(s, k, coap_opt_encode(number - prevOf(s, k), value))
      found(s, hits) ==
        IF hits = {} THEN Failed(p, "NotFound")
        ELSE at(s, CHOOSE i \in hits : \A j \in hits : i <= j)
      among(s) == found(s, {i \in 1 .. Len(s) : s[i].number = number})
  IN  among(ScanOptions(OptionBytes(p), 0).opts)

\* coap_add_data(pdu, len, data), lines 630-637, on the bytes of the PDU:
\* the payload marker and the data go behind the options.  No data, no marker.
set_payload(p, data, oom) ==
  LET put(r) ==
        IF r.ret = 0 THEN Failed(p, "NoSpace")
        ELSE [p |-> [r.p EXCEPT !.buf = @ \o <<COAP_PAYLOAD_START>> \o data,
                                !.data = p.used_size + 2,
                                !.used_size = @ + Len(data) + 1],
              ret |-> 1, err |-> "none"]
  IN  IF data = <<>> THEN [p |-> p, ret |-> 1, err |-> "none"]
      ELSE put(coap_pdu_check_resize(p, p.used_size + Len(data) + 1, oom))

\* --------------------------------------------------------- building a PDU
MaxOptions == 2          \* options a PDU is given at most

PduSizes == {0, 4, 12}               \* the size argument of coap_pdu_init()
TokenSamples ==
  {<<>>, <<81>>, <<1, 2, 3, 4, 5, 6, 7, 8>>, <<1, 2, 3, 4, 5, 6, 7, 8, 9>>}
OptionNumbers == {COAP_OPTION_URI_PATH, 60, 300}
OptionValues == {<<>>, <<1>>}
PayloadSamples == {<<>>, <<255>>, <<7, 8>>}
ResizeSamples == {2, 8, 16}

\* The allocator's refusal is looked at only where it changes the outcome.
OomChoices(withRoom, without) ==
  IF withRoom = without THEN {FALSE} ELSE BOOLEAN

Called(op, r, oom) ==
  [NoPduCall EXCEPT !.op = op, !.ret = r.ret, !.err = r.err, !.oom = oom,
     !.had = {k \in {"token", "options", "payload"} :
                \/ k = "token" /\ pdu.token_length > 0
                \/ k = "options" /\ Options(pdu) # <<>>
                \/ k = "payload" /\ pdu.data # 0}]

Create(code, size) ==
  /\ ~pdu.live
  /\ pdu' = coap_pdu_init(COAP_MESSAGE_NON, code, 4660, size)
  /\ plast' = [NoPduCall EXCEPT !.op = "create", !.len = size]
  /\ UNCHANGED <<wire, rx>>
  /\ UNCHANGED asyncvars

AddToken(token) ==
  /\ pdu.live
  /\ \E oom \in OomChoices(coap_add_token(pdu, token, FALSE),
                           coap_add_token(pdu, token, TRUE)) :
       \E r \in {coap_add_token(pdu, token, oom)} :
         /\ pdu' = r.p
         /\ plast' = [Called("add_token", r, oom) EXCEPT
                        !.len = Len(token), !.value = token]
  /\ UNCHANGED <<wire, rx>>
  /\ UNCHANGED asyncvars

AddOption(number, value) ==
  /\ pdu.live
  /\ Len(Options(pdu)) < MaxOptions
  /\ \E oom \in OomChoices(coap_add_option(pdu, number, value, FALSE),
                           coap_add_option(pdu, number, value, TRUE)) :
       \E r \in {coap_add_option(pdu, number, value, oom)} :
         /\ pdu' = r.p
         /\ plast' = [Called("add_option", r, oom) EXCEPT
                        !.number = number, !.value = value]
  /\ UNCHANGED <<wire, rx>>
  /\ UNCHANGED asyncvars

RemoveOption(number) ==
  /\ pdu.live
  /\ \E r \in {coap_remove_option(pdu, number)} :
       /\ pdu' = r.p
       /\ plast' = [Called("remove_option", r, FALSE) EXCEPT !.number = number]
  /\ UNCHANGED <<wire, rx>>
  /\ UNCHANGED asyncvars

UpdateOption(number, value) ==
  /\ pdu.live
  /\ \E oom \in OomChoices(coap_update_option(pdu, number, value, FALSE),
                           coap_update_option(pdu, number, value, TRUE)) :
       \E r \in {coap_update_option(pdu, number, value, oom)} :
         /\ pdu' = r.p
         /\ plast' = [Called("update_option", r, oom) EXCEPT
                        !.number = number, !.value = value]
  /\ UNCHANGED <<wire, rx>>
  /\ UNCHANGED asyncvars

\* coap_add_data() is called once per PDU (pdu.h lines 630-634).
AddData(data) ==
  /\ pdu.live
  /\ pdu.data = 0
  /\ \E oom \in OomChoices(set_payload(pdu, data, FALSE),
                           set_payload(pdu, data, TRUE)) :
       \E r \in {set_payload(pdu, data, oom)} :
         /\ pdu' = r.p
         /\ plast' = [Called("add_data", r, oom) EXCEPT
                        !.len = Len(data), !.value = data]
  /\ UNCHANGED <<wire, rx>>
  /\ UNCHANGED asyncvars

Resize(new_size) ==
  /\ pdu.live
  /\ \E oom \in OomChoices(coap_pdu_resize(pdu, new_size, FALSE),
                           coap_pdu_resize(pdu, new_size, TRUE)) :
       \E r \in {coap_pdu_resize(pdu, new_size, oom)} :
         /\ pdu' = r.p
         /\ plast' = [NoPduCall EXCEPT !.op = "resize", !.ret = r.ret,
                        !.err = IF r.ret = 0 THEN "NoSpace" ELSE "none",
                        !.oom = oom, !.len = new_size]
  /\ UNCHANGED <<wire, rx>>
  /\ UNCHANGED asyncvars

NextPdu ==
  \/ \E size \in PduSizes : Create(69, size)
  \/ \E token \in TokenSamples : AddToken(token)
  \/ \E number \in OptionNumbers, value \in OptionValues : AddOption(number, value)
  \/ \E number \in OptionNumbers : RemoveOption(number)
  \/ \E number \in OptionNumbers, value \in OptionValues : UpdateOption(number, value)
  \/ \E data \in PayloadSamples : AddData(data)
  \/ \E new_size \in ResizeSamples : Resize(new_size)

SpecPdu == Init /\ [][NextPdu]_vars

\* Construction only: a PDU of any family of code, empty messages included,
\* is given a token, options and a payload.
NextBuild ==
  \/ \E code \in {0, 1, 69}, size \in PduSizes : Create(code, size)
  \/ \E token \in TokenSamples : AddToken(token)
  \/ \E number \in OptionNumbers, value \in OptionValues : AddOption(number, value)
  \/ \E data \in PayloadSamples : AddData(data)

SpecBuild == Init /\ [][NextBuild]_vars

\* ----------------------------------------------------- pdu.h: parsing
\* coap_pdu_parse_header(pdu, proto), lines 514-521: the fields of the
\* header.  A UDP header carries version, type, token length, code and
\* message id; a TCP header carries token length and code only, type and
\* message id stay as coap_pdu_init() left them.
coap_pdu_parse_header(p, proto, hdr) ==
  IF IsUdp(proto)
    THEN IF hdr[1] \div 64 # COAP_DEFAULT_VERSION THEN [p |-> p, ret |-> 0]
         ELSE [p |-> [p EXCEPT !.type = (hdr[1] \div 16) % 4,
                               !.token_length = hdr[1] % 16,
                               !.code = hdr[2],
                               !.mid = FromBigEndian(SubSeq(hdr, 3, 4))],
               ret |-> 1]
    ELSE [p |-> [p EXCEPT !.token_length = hdr[1] % 16,
                          !.code = hdr[Len(hdr)]],
          ret |-> 1]

\* The step of the parse path that follows a step, when nothing is wrong.
NextParseState_skipsToken(state) ==
  CASE state = "HeaderPending" -> "HeaderParsed"
    [] state = "HeaderParsed"  -> "OptionsParsed"
    [] state = "Tokenlocated"  -> "OptionsParsed"
    [] state = "OptionsParsed" -> "Complete"
    [] OTHER -> state

NextParseState(state) ==
  CASE state = "HeaderPending" -> "HeaderParsed"
    [] state = "HeaderParsed"  -> "Tokenlocated"
    [] state = "Tokenlocated"  -> "OptionsParsed"
    [] state = "OptionsParsed" -> "Complete"
    [] OTHER -> state

\* The payload behind the options: none when the bytes end there, an error
\* when the marker is the last byte, else what follows the marker.
PayloadAt(p, rest) ==
  [ok |-> Len(rest) # 1,
   data |-> IF rest = <<>> THEN 0 ELSE p.used_size - Len(rest) + 2]

\* One step of coap_pdu_parse(proto, data, length, pdu), lines 536-553: the
\* header (coap_pdu_parse_header_size, coap_pdu_parse_header), then, in
\* coap_pdu_parse_opt (lines 523-534), the token, the options and the
\* payload.  r is the receiver, w the message.
ParseStep(r, w) ==
  LET p      == r.pdu
      failed == [r EXCEPT !.state = "Failed", !.ret = 0]
      on(q)  == [r EXCEPT !.state = NextParseState(r.state), !.pdu = q]
      fields(h) == IF h.ret = 0 THEN failed ELSE on(h.p)
      header(hs) ==
        IF hs = 0 \/ hs > Len(w.bytes) \/ hs > p.max_hdr_size THEN failed
        ELSE fields(coap_pdu_parse_header(
                      [p EXCEPT !.hdr_size = hs,
                                !.used_size = Len(w.bytes) - hs,
                                !.alloc_size = Len(w.bytes) - hs,
                                !.buf = SubSeq(w.bytes, hs + 1, Len(w.bytes))],
                      w.proto, SubSeq(w.bytes, 1, hs)))
      options(s) ==
        IF ~s.ok THEN failed
        ELSE on([p EXCEPT !.max_opt =
                   IF s.opts = <<>> THEN 0 ELSE s.opts[Len(s.opts)].number])
      payload(d) ==
        IF ~d.ok THEN failed
        ELSE [on([p EXCEPT !.data = d.data]) EXCEPT !.ret = 1]
      body == SubSeq(p.buf, p.token_length + 1, p.used_size)
  IN  CASE r.state = "HeaderPending" ->
             header(coap_pdu_parse_header_size(w.proto, w.bytes))
        [] r.state = "HeaderParsed" ->
             IF p.token_length > MaxTokenLength \/ p.token_length > p.used_size
               THEN failed ELSE on(p)
        [] r.state = "Tokenlocated" -> options(ScanOptions(body, 0))
        [] r.state = "OptionsParsed" ->
             payload(PayloadAt(p, ScanOptions(body, 0).rest))
        [] OTHER -> r

\* ------------------------------------------------- messages on the wire
\* PDUs built with the mutators, options given in any order.
RECURSIVE AddOptions(_, _)
AddOptions(p, opts) ==
  IF opts = <<>> THEN p
  ELSE AddOptions(coap_add_option(p, Head(opts)[1], Head(opts)[2], FALSE).p,
                  Tail(opts))

BuiltPdus ==
  { set_payload(
      AddOptions(coap_add_token(coap_pdu_init(h[1], h[2], h[3], 0), t, FALSE).p, o),
      d, FALSE).p :
      h \in {<<COAP_MESSAGE_CON, 1, 0>>, <<COAP_MESSAGE_NON, 69, 4660>>},
      t \in {<<>>, <<81>>, <<1, 2, 3, 4, 5, 6, 7, 8>>},
      o \in {<<>>,
             << <<COAP_OPTION_URI_PATH, <<1>> >> >>,
             << <<300, <<>> >>, <<COAP_OPTION_URI_PATH, <<1>> >>,
                <<COAP_OPTION_URI_PATH, <<2>> >> >>,
             << <<60, <<1, 2, 3, 4, 5, 6, 7, 8, 9, 10, 11, 12, 13>> >> >>},
      d \in PayloadSamples }

\* Messages nobody built: cut short, with reserved nibbles, with a bare
\* payload marker.  <<protocol, bytes>> each.
RawMessages ==
  { <<COAP_PROTO_UDP, b>> :
      b \in {<<>>, <<64, 1, 0>>, <<0, 1, 0, 1>>, <<64, 1, 0, 1>>,
             <<73, 1, 0, 1, 1, 2, 3, 4, 5, 6, 7, 8, 9>>,
             <<66, 1, 0, 1, 5>>,
             <<64, 1, 0, 1, 255>>,
             <<65, 1, 0, 1, 81, 177, 1, 255>>,
             <<64, 1, 0, 1, 255, 7>>,
             <<64, 1, 0, 1, 255, 255>>,
             <<64, 1, 0, 1, 240>>, <<64, 1, 0, 1, 177>>,
             <<64, 1, 0, 1, 208>>, <<64, 1, 0, 1, 31>>} }
  \cup
  { <<COAP_PROTO_TCP, b>> :
      b \in {<<208>>, <<0, 1>>, <<16, 1, 255>>, <<32, 1, 255, 7>>,
             <<17, 1, 81, 255>>, <<41, 1, 1, 2>>} }

\* The sender's PDU, or none when the message comes from elsewhere.
InitWire ==
  /\ AsyncIdle
  /\ pdu \in BuiltPdus \cup {NoPdu}
  /\ wire = NoWire
  /\ rx = NoRx
  /\ plast = NoPduCall

\* coap_pdu_encode_header() and the bytes from pdu->token on go out; the
\* receiver starts on a PDU of its own.
Send(proto) ==
  /\ pdu.live
  /\ rx.state = "Idle"
  /\ \E r \in {coap_pdu_encode_header(pdu, proto)} :
       /\ r.ret # 0
       /\ pdu' = r.p
       /\ wire' = [proto |-> proto, bytes |-> r.hdr \o pdu.buf]
       /\ plast' = [NoPduCall EXCEPT !.op = "encode_header", !.ret = r.ret,
                                     !.proto = proto]
  /\ rx' = [NoRx EXCEPT !.state = "HeaderPending", !.proto = proto,
                        !.pdu = coap_pdu_init(0, 0, 0, 0)]
  /\ UNCHANGED asyncvars

Inject(m) ==
  /\ ~pdu.live
  /\ rx.state = "Idle"
  /\ wire' = [proto |-> m[1], bytes |-> m[2]]
  /\ rx' = [NoRx EXCEPT !.state = "HeaderPending", !.proto = m[1],
                        !.pdu = coap_pdu_init(0, 0, 0, 0)]
  /\ UNCHANGED <<pdu, plast>>
  /\ UNCHANGED asyncvars

Parse ==
  /\ rx.state \notin {"Idle", "Complete", "Failed"}
  /\ rx' = ParseStep(rx, wire)
  /\ plast' = [NoPduCall EXCEPT !.op = "parse", !.ret = rx'.ret,
                                !.proto = wire.proto]
  /\ UNCHANGED <<pdu, wire>>
  /\ UNCHANGED asyncvars

NextWire ==
  \/ \E proto \in {COAP_PROTO_UDP, COAP_PROTO_TCP} : Send(proto)
  \/ \E m \in RawMessages : Inject(m)
  \/ Parse

SpecWire == InitWire /\ [][NextWire]_vars

\* ------------------------------------------------- pdu.h: code encoding
\* a | b on unsigned values.
RECURSIVE BitOr(_, _)
BitOr(a, b) ==
  IF a = 0 THEN b
  ELSE IF b = 0 THEN a
  ELSE 2 * BitOr(a \div 2, b \div 2) + (IF a % 2 = 1 \/ b % 2 = 1 THEN 1 ELSE 0)

\* COAP_RESPONSE_CODE(N), line 156: class.detail written as the decimal number
\* N = 100 * class + detail.
COAP_RESPONSE_CODE_times40(N) == (N \div 100) * 40 + (N % 100)

COAP_RESPONSE_CODE(N) == BitOr((N \div 100) * 32, N % 100)

\* COAP_RESPONSE_CLASS(C), line 159
COAP_RESPONSE_CLASS(C) == (C \div 32) % 256

\* COAP_SIGNALING_CODE(N), line 182
COAP_SIGNALING_CODE(N) == BitOr((N \div 100) * 32, N % 100)

\* enum coap_response_code, lines 366-397: the numbers N of its enumerators.
coap_response_code ==
  (200 .. 205) \cup {231} \cup (400 .. 406) \cup {408, 409, 412, 413, 415, 422, 429}
  \cup (500 .. 505) \cup {508}

\* A message is created with the code one of the macros gives for n, and the
\* macros of lines 324-327 and 159 are applied to the code it then carries.
EncodeCode(n, signaling) ==
  /\ ~pdu.live
  /\ pdu' = coap_pdu_init(COAP_MESSAGE_NON,
                          IF signaling THEN COAP_SIGNALING_CODE(n)
                          ELSE COAP_RESPONSE_CODE(n), 0, 0)
  /\ plast' = [NoPduCall EXCEPT
                 !.op = IF signaling THEN "signaling_code" ELSE "response_code",
                 !.number = n, !.class = FamiliesOf(pdu'.code),
                 !.ret = COAP_RESPONSE_CLASS(pdu'.code)]
  /\ UNCHANGED <<wire, rx>>
  /\ UNCHANGED asyncvars

NextResp == \E n \in 0 .. 799, signaling \in BOOLEAN : EncodeCode(n, signaling)

SpecResp == Init /\ [][NextResp]_vars

\* ------------------------------------------------------------ properties
\* The exchanges of context c that name session s and message id m.
Holding(c, s, m) ==
  {a \in Listed(c) : asyncs[a].session = s /\ pdus[asyncs[a].pdu].mid = m}

\* C1: in every reachable state each context's registry holds at most one
\* exchange for each (session, message-id) pair, and no exchange twice.
C1_AtMostOnePerPair ==
  \A c \in Contexts :
    /\ \A s \in Sessions, m \in Mids : Cardinality(Holding(c, s, m)) <= 1
    /\ Cardinality(Listed(c)) = Len(async_state[c])

\* C1 witness: a full registry of two exchanges that share a message id, and a
\* register call that was turned down as a duplicate.
C1_Witness ==
  /\ Len(async_state[1]) = 2
  /\ pdus[asyncs[async_state[1][1]].pdu].mid = pdus[asyncs[async_state[1][2]].pdu].mid
  /\ last.op = "register" /\ last.fail = "duplicate"

\* C2: a register call for a (session, message-id) pair that already has an
\* exchange returns NULL, leaves the list, the exchanges, their PDUs and every
\* session reference count as they were, and find still returns that exchange.
C2_DuplicateRegisterRejected ==
  [][ \A a \in AsyncAddrs :
        ( /\ last'.op = "register"
          /\ a \in Holding(last'.context, last'.session, pdus[last'.pdu].mid) )
        => /\ last'.ret = NULL
           /\ async_state' = async_state
           /\ asyncs' = asyncs
           /\ pdus' = pdus
           /\ ref' = ref
           /\ coap_find_async(State', last'.context, last'.session,
                              pdus[last'.pdu].mid) = a ]_vars

\* C2 witness: a second register for a registered pair has returned NULL and
\* find returns the exchange of the first one.
C2_Witness ==
  /\ last.op = "register" /\ last.ret = NULL /\ last.fail = "duplicate"
  /\ coap_find_async(State, last.context, last.session, pdus[last.pdu].mid) # NULL
  /\ ref[last.session] = OwnerRefs + 1

\* C3: COAP_PDU_IS_REQUEST holds exactly of the codes 1..31; a register call
\* with another code returns NULL and changes neither the registry nor a
\* reference count; with a code in 1..31, no exchange yet for the pair and no
\* allocation failure it returns a new exchange, linked into the list.
C3_OnlyRequestsRegister ==
  [][ last'.op = "register" =>
        LET code == pdus[last'.pdu].code
            c == last'.context
        IN  /\ \A k \in Codes8 : COAP_PDU_IS_REQUEST(k) <=> k \in 1 .. 31
            /\ code \notin 1 .. 31 =>
                 /\ last'.ret = NULL
                 /\ async_state' = async_state /\ asyncs' = asyncs
                 /\ pdus' = pdus /\ ref' = ref
            /\ ( /\ code \in 1 .. 31
                 /\ Holding(c, last'.session, pdus[last'.pdu].mid) = {}
                 /\ last'.fail = "none" )
               => /\ last'.ret # NULL
                  /\ last'.ret \notin AllListed
                  /\ async_state'[c] = <<last'.ret>> \o async_state[c] ]_vars

\* C3 witness: register was called with code 255 on a non-empty registry and
\* returned NULL.
C3_Witness ==
  /\ last.op = "register" /\ last.ret = NULL
  /\ pdus[last.pdu].code = 255
  /\ AllListed # {}

\* C4: find returns the exchange that the latest successful register for
\* (context, session, message-id) created, as long as it has not been released,
\* and NULL otherwise.
C4_FindReflectsRegistry ==
  \A c \in Contexts, s \in Sessions, m \in Mids :
    coap_find_async(State, c, s, m) = registered[<<c, s, m>>]

\* C4 witness: find has returned an exchange that is not the head of the list.
C4_Witness ==
  /\ last.op = "find" /\ last.ret # NULL
  /\ Len(async_state[1]) = 2 /\ last.ret = async_state[1][2]

\* C5: for every session, the references held beyond the owner's are as many
\* as the exchanges, over all contexts, that name the session.
C5_OneReferencePerExchange ==
  \A s \in Sessions :
    ref[s] - OwnerRefs = Cardinality({a \in AllListed : asyncs[a].session = s})

\* C5 witness: two exchanges name the same session, which has two references
\* more than its owner's, after a register that failed.
C5_Witness ==
  /\ \E s \in Sessions : ref[s] = OwnerRefs + 2
  /\ last.op = "register" /\ last.ret = NULL

\* An environment in which no allocation fails.
NoFailure == [oom |-> "none", newmid |-> 0, tick |-> 0, trap |-> TRUE]

\* C6: releasing an exchange of the context's registry unlinks it and nothing
\* else, gives back one reference of its session, frees its request duplicate
\* and the exchange; find for its (session, message-id) then returns NULL and
\* a register of a request for the same pair succeeds.
C6_ReleaseDetaches ==
  [][ (last'.op = "release" /\ last'.async # NULL) =>
        LET s == last'.async
            c == last'.context
            sess == asyncs[s].session
            p == asyncs[s].pdu
            m == pdus[p].mid
        IN  /\ async_state'[c] = SelectSeq(async_state[c], LAMBDA a : a # s)
            /\ Len(async_state'[c]) = Len(async_state[c]) - 1
            /\ ref' = [ref EXCEPT ![sess] = ref[sess] - 1]
            /\ pdus[p].alloc /\ ~pdus'[p].alloc
            /\ asyncs[s].alloc /\ ~asyncs'[s].alloc
            /\ ~crashed'
            /\ coap_find_async(State', c, sess, m) = NULL
            /\ \A q \in requests' :
                 (pdus'[q].mid = m /\ pdus'[q].code \in 1 .. 31) =>
                   coap_register_async(State', c, sess, q, 0, NoFailure).ret # NULL
      ]_vars

\* C6 witness: the second exchange of a list of two has been released, the
\* first is still linked, and the caller holds a request to register.
C6_Witness ==
  /\ last.op = "release" /\ last.async # NULL
  /\ ~asyncs[last.async].alloc
  /\ Len(async_state[last.context]) = 1
  /\ async_state[last.context][1] < last.async
  /\ \E q \in requests : pdus[q].code = 31

\* C7: after release_all the context's list is empty and find returns NULL for
\* every session and message id; every session has lost as many references as
\* exchanges of the list named it, every exchange of the list and its request
\* duplicate has been freed, once, and no other PDU has been touched.
C7_ReleaseAllEmpties ==
  [][ last'.op = "release_all" =>
        LET c == last'.context
            gone == Listed(c)
        IN  /\ async_state'[c] = <<>>
            /\ \A s \in Sessions, m \in Mids :
                 coap_find_async(State', c, s, m) = NULL
            /\ \A s \in Sessions :
                 ref'[s] = ref[s] - Cardinality({a \in gone : asyncs[a].session = s})
            /\ \A a \in gone :
                 /\ asyncs[a].alloc /\ ~asyncs'[a].alloc
                 /\ pdus[asyncs[a].pdu].alloc /\ ~pdus'[asyncs[a].pdu].alloc
            /\ \A p \in PduAddrs :
                 p \notin {asyncs[a].pdu : a \in gone} => pdus'[p] = pdus[p]
            /\ ~crashed' ]_vars

\* C7 witness: release_all has walked a list of two exchanges.
C7_Witness ==
  /\ last.op = "release_all" /\ last.n = 2
  /\ \A a \in AsyncAddrs : ~asyncs[a].alloc
  /\ \A s \in Sessions : ref[s] = OwnerRefs

\* C8: after a successful register the stored request has the message id, the
\* token and the payload of the request passed in.
C8_StoredRequestKeepsPayload ==
  (last.op = "register" /\ last.ret # NULL) =>
    LET req == pdus[last.pdu]
        dup == pdus[asyncs[last.ret].pdu]
    IN  /\ dup.mid = req.mid
        /\ dup.token = req.token
        /\ dup.data = req.data

\* C9: a step in which the caller overwrites or destroys a request PDU leaves
\* every exchange of every list in place, with its fields and the content of
\* its stored request as they were, and find still returns it.
C9_DuplicateIsIndependent ==
  [][ last'.op \in {"mutate_request", "delete_request"} =>
        /\ async_state' = async_state
        /\ \A c \in Contexts : \A a \in Listed(c) :
             /\ asyncs'[a] = asyncs[a]
             /\ pdus'[asyncs[a].pdu] = pdus[asyncs[a].pdu]
             /\ asyncs[a].pdu \notin requests
             /\ coap_find_async(State', c, asyncs[a].session,
                                pdus[asyncs[a].pdu].mid) = a ]_vars

\* C9 witness: the request an exchange of the list was registered from has
\* been destroyed, and the exchange still holds its token, option and payload.
C9_Witness ==
  /\ last.op = "delete_request" /\ last.orig
  /\ \E a \in AllListed :
       /\ pdus[asyncs[a].pdu].token = <<5, 6>>
       /\ pdus[asyncs[a].pdu].options # <<>>
       /\ pdus[asyncs[a].pdu].data = <<7, 8>>

\* C10: a successful register with delay = 0 leaves the fire-time 0 (absent);
\* with delay > 0 the fire-time is the tick read during the call plus delay,
\* in the arithmetic of coap_tick_t.
C10_RegisterFireTime ==
  (last.op = "register" /\ last.ret # NULL) =>
    /\ last.delay = 0 => asyncs[last.ret].delay = 0
    /\ last.delay > 0 =>
         asyncs[last.ret].delay = (last.tick + last.delay) % TickMod

\* C10 witness: register with delay 1 at tick 1 has stored fire-time 2.
C10_Witness ==
  /\ last.op = "register" /\ last.ret # NULL
  /\ last.delay = 1 /\ last.tick = 1
  /\ asyncs[last.ret].delay = 2

\* C11: coap_async_set_delay with delay 0 clears the fire-time whatever it
\* was; with delay > 0 the fire-time becomes the tick read during the call
\* plus delay, and the earlier fire-time does not enter the result.
C11_SetDelayReplaces ==
  last.op = "set_delay" =>
    asyncs[last.async].delay =
      IF last.delay = 0 THEN 0 ELSE (last.tick + last.delay) % TickMod

\* C11 witness: an exchange whose fire-time was 2 has been given delay 1 at
\* tick 0 and now fires at 1.
C11_Witness ==
  /\ last.op = "set_delay" /\ last.old = 2
  /\ last.delay = 1 /\ last.tick = 0
  /\ asyncs[last.async].delay = 1

\* C12: a register whose request duplication fails returns NULL without
\* crashing, whatever the list held: the partial exchange is discarded and
\* the list, the exchanges and the session reference counts are as before.
C12_FailedDuplicateHarmless ==
  [][ (last'.op = "register" /\ last'.fail \in {"pdu", "crash"}) =>
        /\ ~crashed'
        /\ last'.ret = NULL
        /\ async_state' = async_state
        /\ asyncs' = asyncs
        /\ pdus' = pdus
        /\ ref' = ref ]_vars

\* C13: for every 8-bit code, the code is empty exactly when it is 0, a
\* request exactly when it is in 1..31, a response exactly when it is in
\* 64..223 and signaling exactly when it is at least 224; no code is in two
\* families, and the codes 32..63 are in none.
C13_CodeFamilies ==
  plast.op = "classify" =>
    LET c == pdu.code
        F == plast.class
    IN  /\ "empty" \in F <=> c = 0
        /\ "request" \in F <=> c \in 1 .. 31
        /\ "response" \in F <=> c \in 64 .. 223
        /\ "signaling" \in F <=> c >= 224
        /\ Cardinality(F) <= 1
        /\ c \in 32 .. 63 => F = {}

\* C13 witness: the code 63 has been classified and is in no family.
C13_Witness ==
  /\ plast.op = "classify"
  /\ pdu.code = 63 /\ plast.class = {}

\* C14: a TCP header for a message whose options and payload take len bytes
\* has no extended length bytes for len in 0..12, one byte holding len - 13
\* for 13..268, two bytes holding len - 269 for 269..65804 and four bytes
\* holding len - 65805 from 65805 on; the header size coap_pdu_parse_header_size
\* derives from the first byte is the number of bytes coap_pdu_encode_header
\* wrote, and coap_pdu_parse_size gives back the declared length.
C14_TcpLengthClasses ==
  LET len == pdu.used_size - pdu.token_length
      ext == SubSeq(wire.bytes, 2, Len(wire.bytes) - 1)
  IN  IsTcp(wire.proto) =>
        /\ plast.op = "encode_header" =>
             /\ plast.ret = Len(wire.bytes)
             /\ len \in 0 .. 12 => ext = <<>>
             /\ len \in 13 .. 268 => ext = <<len - 13>>
             /\ len \in 269 .. 65804 =>
                  ext = <<(len - 269) \div 256, (len - 269) % 256>>
             /\ len >= 65805 =>
                  /\ Len(ext) = 4
                  /\ ext[1] * 16777216 + ext[2] * 65536 + ext[3] * 256 + ext[4]
                       = len - 65805
        /\ plast.op = "parse_header_size" => plast.ret = Len(wire.bytes)
        /\ plast.op = "parse_size" =>
             plast.ret - Len(wire.bytes) - pdu.token_length = len

\* C14 witness: a header declaring 65805 bytes went through
\* coap_pdu_parse_size, which counted 6 header bytes, 8 token bytes and the
\* 65805 declared.
C14_Witness ==
  /\ plast.op = "parse_size" /\ IsTcp(wire.proto)
  /\ pdu.token_length = 8 /\ pdu.used_size = 65813
  /\ Len(wire.bytes) = 6
  /\ plast.ret = 65819

\* C15 as stated: coap_add_token succeeds for every token length 0..8 and
\* fails with TokenTooLong for every length above 8; a failed call leaves
\* the token, the options, the payload and used_size as they were.
C15_TokenLengthAlone ==
  [][ plast'.op = "add_token" =>
        /\ plast'.len <= 8 => plast'.ret # 0
        /\ plast'.len > 8 => (plast'.ret = 0 /\ plast'.err = "TokenTooLong")
        /\ plast'.ret = 0 => pdu' = pdu ]_vars

\* C15 amended: coap_add_token fails with TokenTooLong for every length
\* above 8; for a length 0..8 it succeeds exactly when the token fits the
\* PDU's max_size and the allocator grants the storage, and fails with
\* NoSpace otherwise; a failed call leaves the PDU as it was, a successful
\* one leaves it holding the token.
C15_TokenLengthAndRoom ==
  [][ plast'.op = "add_token" =>
        LET room == (pdu.max_size = 0 \/ plast'.len <= pdu.max_size)
                    /\ ~plast'.oom
        IN  /\ plast'.len > 8 => (plast'.ret = 0 /\ plast'.err = "TokenTooLong")
            /\ (plast'.len <= 8 /\ room) =>
                 (plast'.ret # 0 /\ TokenOf(pdu') = plast'.value
                    /\ pdu'.used_size = plast'.len)
            /\ (plast'.len <= 8 /\ ~room) =>
                 (plast'.ret = 0 /\ plast'.err = "NoSpace")
            /\ plast'.ret = 0 => pdu' = pdu ]_vars

\* C15 witness: a 9-byte token was refused on a PDU that still holds its
\* 8-byte token and a payload.
C15_Witness ==
  /\ plast.op = "add_token" /\ plast.len = 9
  /\ plast.ret = 0 /\ plast.err = "TokenTooLong"
  /\ pdu.token_length = 8 /\ pdu.data # 0

C17_GrowthCeiling ==
  [][ LET free   == [pdu EXCEPT !.max_size = 0]
          wanted == IF plast'.op = "add_option"
                      THEN coap_add_option(free, plast'.number, plast'.value,
                                           FALSE).p.used_size
                      ELSE set_payload(free, plast'.value, FALSE).p.used_size
      IN  /\ pdu'.used_size <= pdu'.alloc_size
          /\ pdu'.max_size # 0 => pdu'.used_size <= pdu'.max_size
          /\ Len(pdu'.buf) = pdu'.used_size
          /\ ( /\ plast'.op \in {"add_option", "add_data"}
               /\ pdu.max_size # 0
               /\ wanted > pdu.max_size ) =>
               /\ plast'.ret = 0 /\ plast'.err = "NoSpace"
               /\ pdu'.used_size = pdu.used_size
               /\ pdu'.buf = pdu.buf
               /\ pdu' = pdu ]_vars

\* C17 witness: a PDU limited to 4 bytes holds 3; coap_add_data with two
\* bytes, which needs 6, was refused though the allocator had memory, and
\* the PDU still holds its 3 bytes.
C17_Witness ==
  /\ plast.op = "add_data" /\ plast.len = 2
  /\ plast.ret = 0 /\ plast.err = "NoSpace" /\ ~plast.oom
  /\ pdu.max_size = 4 /\ pdu.used_size = 3 /\ pdu.data = 0

\* C18 as stated: a PDU built with the mutators, sent with
\* coap_pdu_encode_header and parsed from its bytes, comes out with the same
\* type, code, message id, token, options and payload.
C18_RoundTrip ==
  (pdu.live /\ rx.state = "Complete") =>
    /\ rx.pdu.type = pdu.type
    /\ rx.pdu.code = pdu.code
    /\ rx.pdu.mid = pdu.mid
    /\ TokenOf(rx.pdu) = TokenOf(pdu)
    /\ Options(rx.pdu) = Options(pdu)
    /\ PayloadOf(rx.pdu) = PayloadOf(pdu)

\* C18 amended: the parse of a sent PDU never fails and gives back the code,
\* the token, the options (numbers, values, order) and the payload; over UDP
\* it gives back the type and the message id too, which a TCP header does
\* not carry.
C18_RoundTripByTransport ==
  pdu.live =>
    /\ rx.state # "Failed"
    /\ rx.state = "Complete" =>
         /\ rx.pdu.code = pdu.code
         /\ TokenOf(rx.pdu) = TokenOf(pdu)
         /\ Options(rx.pdu) = Options(pdu)
         /\ PayloadOf(rx.pdu) = PayloadOf(pdu)
         /\ rx.pdu.max_opt = pdu.max_opt
         /\ IsUdp(wire.proto) =>
              (rx.pdu.type = pdu.type /\ rx.pdu.mid = pdu.mid)

\* C18 witness: a PDU with an 8-byte token, the options 11, 11, 300 and a
\* two-byte payload has been sent over UDP and parsed completely.
C18_Witness ==
  /\ pdu.live /\ rx.state = "Complete" /\ IsUdp(wire.proto)
  /\ pdu.mid = 4660 /\ rx.pdu.mid = 4660
  /\ rx.pdu.token_length = 8
  /\ Options(rx.pdu) = << <<11, <<1>> >>, <<11, <<2>> >>, <<300, <<>> >> >>
  /\ PayloadOf(rx.pdu) = <<7, 8>>

\* C19: a message whose bytes behind the token and the options are the 0xFF
\* marker and nothing else does not parse; a parse that succeeds has either
\* no payload or a payload of at least one byte, and that payload is what
\* follows the marker, the marker not included.
C19_BareMarkerFails ==
  LET p    == rx.pdu
      body == SubSeq(p.buf, p.token_length + 1, p.used_size)
      s    == ScanOptions(body, 0)
  IN  /\ ( /\ rx.state \in {"Tokenlocated", "OptionsParsed", "Complete"}
           /\ s.ok /\ s.rest = <<255>> ) =>
           (rx.state # "Complete" /\ rx.ret = 0)
      /\ rx.state = "Complete" =>
           /\ rx.ret = 1
           /\ p.data = 0 => (s.ok /\ s.rest = <<>>)
           /\ p.data # 0 =>
                /\ PayloadOf(p) # <<>>
                /\ p.buf[p.data - 1] = 255
                /\ s.ok /\ s.rest = <<255>> \o PayloadOf(p)
                /\ PayloadOf(p)
                     = SubSeq(wire.bytes, p.hdr_size + p.data, Len(wire.bytes))

\* C19 witness: the parse of a message with a token, option 11 and then the
\* bare marker has failed, after the options were read.
C19_Witness ==
  /\ rx.state = "Failed" /\ rx.ret = 0
  /\ wire.bytes = <<65, 1, 0, 1, 81, 177, 1, 255>>
  /\ rx.pdu.token_length = 1 /\ rx.pdu.max_opt = 11

\* C20: the parse goes HeaderPending, HeaderParsed, Tokenlocated,
\* OptionsParsed, Complete, one step at a time and never back; Failed is
\* entered from one of the first four only; in Complete and in Failed
\* nothing changes any more; success is reported in Complete only, and
\* Failed reports failure.
C20_ParsePathForward ==
  [][ LET a == rx.state
          b == rx'.state
      IN  /\ a # b =>
                \/ <<a, b>> \in {<<"Idle", "HeaderPending">>,
                                 <<"HeaderPending", "HeaderParsed">>,
                                 <<"HeaderParsed", "Tokenlocated">>,
                                 <<"Tokenlocated", "OptionsParsed">>,
                                 <<"OptionsParsed", "Complete">>}
                \/ /\ b = "Failed"
                   /\ a \in {"HeaderPending", "HeaderParsed", "Tokenlocated",
                             "OptionsParsed"}
          /\ a \in {"Complete", "Failed"} => rx' = rx
          /\ rx'.ret # 0 => b = "Complete"
          /\ b = "Complete" => rx'.ret = 1
          /\ b = "Failed" => rx'.ret = 0 ]_vars

\* C20 witness: the parse of a message whose token runs past its end has
\* failed after the header was read, and reports failure.
C20_Witness ==
  /\ rx.state = "Failed" /\ rx.ret = 0
  /\ wire.bytes = <<66, 1, 0, 1, 5>>
  /\ rx.pdu.hdr_size = 4 /\ rx.pdu.token_length = 2

\* C21: in every state reached through coap_pdu_init, coap_add_token,
\* coap_add_option and coap_add_data, a PDU whose code is 0 has no token, no
\* options and no payload.
C21_EmptyCarriesNothing ==
  (pdu.live /\ COAP_PDU_IS_EMPTY(pdu.code)) =>
    /\ pdu.token_length = 0
    /\ Options(pdu) = <<>>
    /\ pdu.data = 0
    /\ pdu.used_size = 0

\* C22: a token, then options, then a payload.  A successful coap_add_token
\* leaves the PDU with the token and nothing else, max_opt 0; a successful
\* coap_add_option leaves it without payload; hence the step after which
\* token and options are both there is a coap_add_option, and the step after
\* which token, options and payload are all there is a coap_add_data.
C22_TokenOptionsPayload ==
  [][ /\ (plast'.op = "add_token" /\ plast'.ret # 0) =>
           /\ TokenOf(pdu') = plast'.value
           /\ Options(pdu') = <<>>
           /\ pdu'.data = 0
           /\ pdu'.max_opt = 0
           /\ pdu'.used_size = pdu'.token_length
      /\ (plast'.op = "add_option" /\ plast'.ret # 0) =>
           /\ pdu'.data = 0
           /\ Options(pdu') # <<>>
           /\ TokenOf(pdu') = TokenOf(pdu)
      /\ ( /\ pdu'.token_length > 0 /\ Options(pdu') # <<>>
           /\ ~(pdu.token_length > 0 /\ Options(pdu) # <<>>) ) =>
           /\ plast'.op = "add_option"
           /\ pdu.token_length > 0
      /\ ( /\ pdu'.token_length > 0 /\ Options(pdu') # <<>> /\ pdu'.data # 0
           /\ ~(pdu.token_length > 0 /\ Options(pdu) # <<>> /\ pdu.data # 0) ) =>
           /\ plast'.op = "add_data"
           /\ pdu.token_length > 0 /\ Options(pdu) # <<>> ]_vars

\* C22 witness: a token has been set on a PDU that held options and a
\* payload, and the PDU now holds the token alone.
C22_Witness ==
  /\ plast.op = "add_token" /\ plast.ret # 0
  /\ plast.had = {"token", "options", "payload"}
  /\ pdu.used_size = pdu.token_length

\* C23: the signaling codes 7.01 .. 7.05 are encoded as 225 .. 229 and are
\* signaling codes; every enumerator of coap_response_code is encoded as a
\* value in 64 .. 223 that is a response code and nothing else, and
\* COAP_RESPONSE_CLASS of that value is the class digit.
C23_CodeEncoding ==
  /\ (plast.op = "signaling_code" /\ plast.number \in 701 .. 705) =>
       /\ pdu.code = 224 + (plast.number - 700)
       /\ pdu.code \in 225 .. 229
       /\ plast.class = {"signaling"}
  /\ (plast.op = "response_code" /\ plast.number \in coap_response_code) =>
       /\ pdu.code \in 64 .. 223
       /\ pdu.code = 32 * (plast.number \div 100) + (plast.number % 100)
       /\ plast.class = {"response"}
       /\ plast.ret = plast.number \div 100

\* C23 witness: 2.31, the enumerator with the largest detail, has been
\* encoded as 95, and classified.
C23_Witness ==
  /\ plast.op = "response_code" /\ plast.number = 231
  /\ pdu.code = 95 /\ plast.ret = 2 /\ plast.class = {"response"}

\* C24: releasing an exchange e of a context leaves every other exchange
\* that find returned before the call findable afterwards, with its session,
\* stored request, fire-time and application pointer as they were, and does
\* not change the reference count of a session other than e's.
C24_ReleaseLeavesOthers ==
  [][ (last'.op = "release" /\ last'.async # NULL) =>
        LET e == last'.async
        IN  /\ \A c \in Contexts, s \in Sessions, m \in Mids :
                 LET a == coap_find_async(State, c, s, m)
                 IN  (a # NULL /\ a # e) =>
                       /\ coap_find_async(State', c, s, m) = a
                       /\ asyncs'[a] = asyncs[a]
                       /\ pdus'[asyncs[a].pdu] = pdus[asyncs[a].pdu]
            /\ \A s \in Sessions :
                 s # asyncs[e].session => ref'[s] = ref[s] ]_vars

\* C24 witness: the head of a list of two has been released; the exchange
\* left names another session and still has its fire-time and its
\* application pointer.
C24_Witness ==
  /\ last.op = "release" /\ last.async # NULL
  /\ ~asyncs[last.async].alloc
  /\ Len(async_state[1]) = 1
  /\ async_state[1][1] > last.async
  /\ asyncs[async_state[1][1]].appdata = 2
  /\ asyncs[async_state[1][1]].delay = 1
  /\ ref[asyncs[async_state[1][1]].session] = OwnerRefs + 1
  /\ \E s \in Sessions : ref[s] = OwnerRefs

\* C25: the application pointer of a newly registered exchange is NULL;
\* coap_async_get_app_data returns what the latest coap_async_set_app_data on
\* the exchange stored (each set stores its argument, no other call on a
\* listed exchange changes it); coap_async_set_delay and
\* coap_async_set_app_data change neither the lists, nor an exchange's session
\* or stored request, nor a reference count; set_delay leaves every
\* application pointer and set_app_data every fire-time as it was.
C25_AppDataAndDelayApart ==
  [][ /\ (last'.op = "register" /\ last'.ret # NULL) =>
           asyncs'[last'.ret].appdata = NULL
      /\ last'.op = "get_app_data" =>
           last'.ret = asyncs[last'.async].appdata
      /\ \A a \in AllListed :
           a \in UNION {{async_state'[c][i] : i \in 1 .. Len(async_state'[c])} :
                          c \in Contexts} =>
             asyncs'[a].appdata =
               IF last'.op = "set_app_data" /\ last'.async = a
                 THEN last'.app_data ELSE asyncs[a].appdata
      /\ last'.op \in {"set_delay", "set_app_data"} =>
           /\ async_state' = async_state
           /\ registered' = registered
           /\ pdus' = pdus
           /\ ref' = ref
           /\ \A a \in AsyncAddrs :
                /\ asyncs'[a].alloc = asyncs[a].alloc
                /\ asyncs'[a].session = asyncs[a].session
                /\ asyncs'[a].pdu = asyncs[a].pdu
                /\ last'.op = "set_delay" => asyncs'[a].appdata = asyncs[a].appdata
                /\ last'.op = "set_app_data" => asyncs'[a].delay = asyncs[a].delay
    ]_vars

\* C25 witness: coap_async_get_app_data has returned the pointer 2 of an
\* exchange with a fire-time, while the other exchange of the list holds the
\* pointer 1.
C25_Witness ==
  /\ last.op = "get_app_data" /\ last.ret = 2
  /\ asyncs[last.async].delay = 1
  /\ Len(async_state[1]) = 2
  /\ \E a \in AllListed : asyncs[a].appdata = 1

\* C26: after a successful register or a set_delay with delay > 0 the
\* fire-time is present, that is not the 0 of a cleared one, and not
\* earlier than the tick read during the call, also when tick + delay passes
\* the largest coap_tick_t.
C26_FireTimePresent ==
  /\ (last.op = "register" /\ last.ret # NULL /\ last.delay > 0) =>
       /\ asyncs[last.ret].delay # 0
       /\ asyncs[last.ret].delay >= last.tick
  /\ (last.op = "set_delay" /\ last.delay > 0) =>
       /\ asyncs[last.async].delay # 0
       /\ asyncs[last.async].delay >= last.tick

\* C27: the largest message sizes of the four TCP length classes are 12,
\* 268, 65804 and 65805 + 0xFFFFFFFF, each larger than the one before, in
\* every width of unsigned arithmetic the last sum is evaluated in, 32 bits
\* included.  Stated of the class a message's TCP header names: the largest
\* size of that class is above the largest size of the class below it.
C27_MaxSizesIncrease ==
  (plast.op = "encode_header" /\ IsTcp(wire.proto) /\ plast.ret # 0) =>
    LET nibble == wire.bytes[1] \div 16
        Digits(n, k) ==
          [i \in 1 .. k |-> IF i = k THEN n % 65536
                            ELSE IF i = k - 1 THEN n \div 65536 ELSE 0]
        Less(x, y) ==
          \E i \in 1 .. Len(x) :
            /\ x[i] < y[i]
            /\ \A j \in 1 .. (i - 1) : x[j] = y[j]
    IN  /\ nibble < 13 => COAP_MAX_MESSAGE_SIZE_TCP0 = 12
        /\ nibble = 13 =>
             /\ COAP_MAX_MESSAGE_SIZE_TCP8 = 268
             /\ COAP_MAX_MESSAGE_SIZE_TCP0 < COAP_MAX_MESSAGE_SIZE_TCP8
        /\ nibble = 14 =>
             /\ COAP_MAX_MESSAGE_SIZE_TCP16 = 65804
             /\ COAP_MAX_MESSAGE_SIZE_TCP8 < COAP_MAX_MESSAGE_SIZE_TCP16
        /\ nibble = 15 =>
             \A width \in {32, 64} :
               Less(Digits(COAP_MAX_MESSAGE_SIZE_TCP16, width \div 16),
                    COAP_MAX_MESSAGE_SIZE_TCP32(width))

\* C28: a register, release or release_all on one context leaves what find
\* returns on every other context, and the exchanges found there, as they
\* were; a pair (session, message id) that another context holds can be
\* registered, and then each of the two exchanges holds a reference of its
\* own to the session.
C28_ContextsIndependent ==
  [][ last'.op \in {"register", "release", "release_all"} =>
        /\ \A c \in Contexts \ {last'.context} :
             /\ async_state'[c] = async_state[c]
             /\ \A s \in Sessions, m \in Mids :
                  LET a == coap_find_async(State, c, s, m)
                  IN  /\ coap_find_async(State', c, s, m) = a
                      /\ a # NULL =>
                           /\ asyncs'[a] = asyncs[a]
                           /\ pdus'[asyncs[a].pdu] = pdus[asyncs[a].pdu]
        /\ ( /\ last'.op = "register"
             /\ last'.fail = "none"
             /\ coap_find_async(State, last'.context, last'.session,
                                pdus[last'.pdu].mid) = NULL ) =>
             /\ last'.ret # NULL
             /\ ref'[last'.session] = ref[last'.session] + 1
             /\ \A c \in Contexts \ {last'.context} :
                  LET b == coap_find_async(State', c, last'.session,
                                           pdus[last'.pdu].mid)
                  IN  b # NULL =>
                        /\ b # last'.ret
                        /\ asyncs'[b].session = asyncs'[last'.ret].session
                        /\ asyncs'[b].pdu # asyncs'[last'.ret].pdu
                        /\ ref'[last'.session] >= OwnerRefs + 2 ]_vars

\* C28 witness: the pair (session 1, message id of the request) has just
\* been registered in one context while the other context holds it too; the
\* session has two references beyond its owner's.
C28_Witness ==
  /\ last.op = "register" /\ last.ret # NULL
  /\ \A c \in Contexts :
       coap_find_async(State, c, last.session, pdus[asyncs[last.ret].pdu].mid) # NULL
  /\ coap_find_async(State, 1, 1, pdus[asyncs[last.ret].pdu].mid)
       # coap_find_async(State, 2, 1, pdus[asyncs[last.ret].pdu].mid)
  /\ ref[1] = OwnerRefs + 2

====
